---- MODULE Spec2Model ----
(***************************************************************************)
(* A model of driver_wasapi_windows.go: the COM apartment worker           *)
(* (comThread), the construction of a wasapiContext, the render goroutine  *)
(* with its fill cycle, and Suspend / Resume / Err.                        *)
(*                                                                         *)
(* Threads of the model:                                                   *)
(*   caller 0        the thread that calls newWASAPIContext                *)
(*   callers 1..N    threads that call Suspend and Resume                  *)
(*   the worker      the goroutine started by newCOMThread                 *)
(*   the renderer    the goroutine started at the end of initOnCOMThread   *)
(* Every call into the platform (COM, IAudioClient2, IAudioRenderClient,   *)
(* WaitForSingleObject) is an input: its outcome is chosen with \E.        *)
(***************************************************************************)
EXTENDS Integers, Sequences, FiniteSets, TLC

\* ------------------------------------------------------------------ bounds
NumClients == 2      \* threads calling Suspend / Resume
MaxCalls == 2        \* Suspend / Resume calls made in one behaviour
MaxCapacity == 2     \* largest hardware buffer size reported by GetBufferSize
MaxChannels == 3     \* largest channel count handed to newWASAPIContext

Ctor == 0
Clients == 1..NumClients
Callers == {Ctor} \cup Clients

\* ------------------------------------------------- 32-bit unsigned frames
\* A frame count is a uint32; the model keeps it as two 16-bit limbs so that
\* the wrap-around of line 257 is computed at its real width.
Limb == 2^16

U32(n) == [hi |-> (n \div Limb) % Limb, lo |-> n % Limb]

Val(w) == w.hi * Limb + w.lo

\* mutant: the padding is ignored and the whole buffer is taken as free
Sub32NoPadding(a, b) == a

Sub32(a, b) ==
    LET d == a.lo - b.lo
        borrow == IF d < 0 THEN 1 ELSE 0
    IN  [hi |-> (a.hi - b.hi - borrow) % Limb, lo |-> d % Limb]

\* mutant: the early return of line 258 is missing
NeverLeqZero32(f) == FALSE

\* `frames <= 0` on a uint32 (line 258)
LeqZero32(f) == f.hi = 0 /\ f.lo = 0

\* int(frames) * c.channelCount (line 269); int is 64 bits wide, so the
\* product of a uint32 and a small channel count does not wrap.
BufLen(f, ch) ==
    LET p == f.lo * ch
    IN  [hi |-> f.hi * ch + p \div Limb, lo |-> p % Limb]

Less(a, b) == a.hi < b.hi \/ (a.hi = b.hi /\ a.lo < b.lo)

Zero == U32(0)

\* ------------------------------------------------------------------ errors
NoErr == "nil"

\* the platform calls of initOnCOMThread, in the order of lines 117..207
SetupSteps ==
    << "CoCreateInstance", "GetDefaultAudioEndPoint", "Activate",
       "SetClientProperties", "IsFormatSupported", "Initialize",
       "GetBufferSize", "GetService", "CreateEventEx", "SetEventHandle",
       "Start" >>

\* line 173
ErrFormat == "format is not supported"

\* atomicError.TryStore: the first stored error stays
TryStore(cell, e) == IF cell = NoErr THEN e ELSE cell

\* the holders of c.m
Free == << "free" >>
Render == << "render" >>
Job(c) == << "job", c >>

VARIABLES
    workerPc,       \* position of the goroutine of newCOMThread
    errChClosed,    \* close(errCh) was executed (line 45)
    funcCh,         \* the callers blocked in `c.funcCh <- ...`, as they arrived
    callPc,         \* position of each caller
    callKind,       \* the job of each caller: "init", "suspend", "resume"
    doneCh,         \* Run's ch of each caller: TRUE once closed (line 65)
    cerr,           \* the cerr slot captured by each caller's job
    jobPc,          \* position of the worker inside each caller's job
    jobRan,         \* the caller's f has returned inside the wrapper (line 64)
    hwErr,          \* what the job's Stop / Start call returned
    ctorRet,        \* what newWASAPIContext returned: "none" until it returns
    submitted,      \* number of jobs sent on funcCh so far
    executed,       \* number of jobs the worker has begun to execute
    setupStep,      \* index into SetupSteps inside initOnCOMThread
    channelCount,   \* c.channelCount
    bufferFrames,   \* c.bufferFrames
    mixFormat,      \* c.mixFormat: "nil", or the format that was accepted
    hwCalls,        \* number of platform calls initOnCOMThread has made
    closest,        \* IsFormatSupported has reported a closest format
    initialized,    \* the hardware client has been initialized (line 177)
    started,        \* the hardware client is in the started state
    m,              \* c.m: Free, Render, or Job(c) for the caller whose job holds it
    err,            \* c.err
    bufLen,         \* len(c.buf)
    bufCap,         \* cap(c.buf)
    maxBuflen,      \* the largest buflen a fill cycle has asked for so far
    renderPc,       \* position of the render goroutine
    padding,        \* paddingFrames of the current fill cycle
    frames,         \* frames of the current fill cycle
    renderRet,      \* the error the render goroutine is returning
    cycle,          \* what the current fill cycle asked of its collaborators
    termStop        \* the render goroutine has issued its Stop (216, 223)

callVars == << callPc, callKind, doneCh, cerr, jobPc, jobRan, hwErr, ctorRet >>
orderVars == << submitted, executed >>
workerVars == << workerPc, errChClosed, funcCh >>
ctxVars == << setupStep, channelCount, bufferFrames, mixFormat, hwCalls,
             closest, initialized >>
hwVars == << started, m, err >>
renderVars == << bufLen, bufCap, maxBuflen, renderPc, padding, frames, renderRet,
                cycle, termStop >>

vars == << callVars, orderVars, workerVars, ctxVars, hwVars, renderVars >>

NoCycle == [requested |-> << >>, pulled |-> << >>, committed |-> << >>]

\* the state before newWASAPIContext(sampleRate, channelCount, mux) runs,
\* for a channel count in chs
InitWith(chs) ==
    /\ workerPc = "notstarted"
    /\ errChClosed = FALSE
    /\ funcCh = << >>
    /\ callPc = [c \in Callers |-> IF c = Ctor THEN "new" ELSE "idle"]
    /\ callKind = [c \in Callers |-> IF c = Ctor THEN "init" ELSE "suspend"]
    /\ doneCh = [c \in Callers |-> FALSE]
    /\ cerr = [c \in Callers |-> NoErr]
    /\ jobPc = [c \in Callers |-> "none"]
    /\ jobRan = [c \in Callers |-> FALSE]
    /\ hwErr = [c \in Callers |-> NoErr]
    /\ ctorRet = "none"
    /\ submitted = 0
    /\ executed = 0
    /\ setupStep = 1
    /\ channelCount \in chs
    /\ bufferFrames = Zero
    /\ mixFormat = "nil"
    /\ hwCalls = 0
    /\ closest = FALSE
    /\ initialized = FALSE
    /\ started = FALSE
    /\ m = Free
    /\ err = NoErr
    /\ bufLen = Zero
    /\ bufCap = Zero
    /\ maxBuflen = Zero
    /\ renderPc = "notlaunched"
    /\ padding = Zero
    /\ frames = Zero
    /\ renderRet = NoErr
    /\ cycle = NoCycle
    /\ termStop = FALSE

\* a stereo stream (line 153)
Stereo == 2

Init == InitWith({Stereo})

\* every channel count a caller may pass
FillInit == InitWith(1..MaxChannels)

\* ---------------------------------------------------------------- comThread
\* newCOMThread, lines 34..36: the channels are made and the goroutine starts;
\* the caller then blocks in `<-errCh` (line 52).
NewCOMThread ==
    /\ callPc[Ctor] = "new"
    /\ workerPc = "notstarted"
    /\ workerPc' = "coinit"
    /\ callPc' = [callPc EXCEPT ![Ctor] = "errCh"]
    /\ UNCHANGED << errChClosed, funcCh, callKind, doneCh, cerr, jobPc, jobRan,
                    hwErr, ctorRet, orderVars, ctxVars, hwVars, renderVars >>

\* line 40: _CoInitializeEx on the worker thread
WorkerCoInit ==
    /\ workerPc = "coinit"
    /\ \E ok \in BOOLEAN : workerPc' = IF ok THEN "closeErrCh" ELSE "sendErr"
    /\ UNCHANGED << errChClosed, funcCh, callVars, orderVars, ctxVars, hwVars,
                    renderVars >>

\* lines 41 and 52..53: errCh is unbuffered, so the send of the worker and the
\* receive of the constructing thread are one step. The constructing thread
\* returns the error; the worker goes on after its send (there is no return
\* after line 41).
WorkerSendErr ==
    /\ workerPc = "sendErr"
    /\ callPc[Ctor] = "errCh"
    /\ workerPc' = "closeErrCh"
    /\ callPc' = [callPc EXCEPT ![Ctor] = "failed"]
    /\ ctorRet' = "CoInitializeEx"
    /\ UNCHANGED << errChClosed, funcCh, callKind, doneCh, cerr, jobPc, jobRan,
                    hwErr, orderVars, ctxVars, hwVars, renderVars >>

\* line 45, then the worker enters `for f := range funcCh`
WorkerCloseErrCh ==
    /\ workerPc = "closeErrCh"
    /\ errChClosed' = TRUE
    /\ workerPc' = "recv"
    /\ UNCHANGED << funcCh, callVars, orderVars, ctxVars, hwVars, renderVars >>

\* Run, lines 62..63: make ch and block in the send on the unbuffered funcCh.
\* The channel holds no job: it only has senders waiting for the receive,
\* recorded here in the order in which they reached the send.
Submit(c, kind) ==
    /\ funcCh' = Append(funcCh, c)
    /\ callPc' = [callPc EXCEPT ![c] = "send"]
    /\ callKind' = [callKind EXCEPT ![c] = kind]
    /\ doneCh' = [doneCh EXCEPT ![c] = FALSE]
    /\ cerr' = [cerr EXCEPT ![c] = NoErr]
    /\ jobRan' = [jobRan EXCEPT ![c] = FALSE]
    /\ hwErr' = [hwErr EXCEPT ![c] = NoErr]
    /\ submitted' = submitted + 1

\* lines 52 (errCh closed: the receive yields nil), 95..103
CtorRunInit ==
    /\ callPc[Ctor] = "errCh"
    /\ errChClosed
    /\ Submit(Ctor, "init")
    /\ UNCHANGED << workerPc, errChClosed, jobPc, ctorRet, executed,
                    ctxVars, hwVars, renderVars >>

\* Suspend (296..298) and Resume (310..312) on a constructed context
Call(c, kind) ==
    /\ callPc[Ctor] = "constructed"
    /\ callPc[c] = "idle"
    /\ submitted < MaxCalls + 1
    /\ Submit(c, kind)
    /\ UNCHANGED << workerPc, errChClosed, jobPc, ctorRet, executed,
                    ctxVars, hwVars, renderVars >>

Suspend(c) == Call(c, "suspend")

Resume(c) == Call(c, "resume")

\* the senders still blocked after the send of c has completed
Remove(q, c) == SelectSeq(q, LAMBDA x : x # c)

FirstStep(kind) == IF kind = "init" THEN "setup" ELSE "lock"

\* mutant: the worker starts the job with `go f()` and receives again
WorkerRecvSpawns ==
    /\ workerPc = "recv"
    /\ \E i \in 1..Len(funcCh) : LET c == funcCh[i] IN
        /\ funcCh' = Remove(funcCh, c)
        /\ callPc' = [callPc EXCEPT ![c] = "wait"]
        /\ jobPc' = [jobPc EXCEPT ![c] = FirstStep(callKind[c])]
        /\ executed' = executed + 1
    /\ workerPc' = "recv"
    /\ UNCHANGED << errChClosed, callKind, doneCh, cerr, jobRan, hwErr, ctorRet,
                    submitted, ctxVars, hwVars, renderVars >>

\* line 47: the worker receives a job and calls it (line 48). The receive
\* completes the send of one of the blocked senders; the code keeps no queue
\* of its own, and which sender is served is the channel's choice.
WorkerRecv ==
    /\ workerPc = "recv"
    /\ \E i \in 1..Len(funcCh) : LET c == funcCh[i] IN
        /\ funcCh' = Remove(funcCh, c)
        /\ callPc' = [callPc EXCEPT ![c] = "wait"]
        /\ jobPc' = [jobPc EXCEPT ![c] = FirstStep(callKind[c])]
        /\ executed' = executed + 1
    /\ workerPc' = "run"
    /\ UNCHANGED << errChClosed, callKind, doneCh, cerr, jobRan, hwErr, ctorRet,
                    submitted, ctxVars, hwVars, renderVars >>

\* line 65: close(ch); the worker goes back to line 47
JobClose(c) ==
    /\ jobPc[c] = "close"
    /\ doneCh' = [doneCh EXCEPT ![c] = TRUE]
    /\ jobPc' = [jobPc EXCEPT ![c] = "none"]
    /\ workerPc' = "recv"
    /\ UNCHANGED << errChClosed, funcCh, callPc, callKind, cerr, jobRan, hwErr,
                    ctorRet, orderVars, ctxVars, hwVars, renderVars >>

\* mutant: Run returns after the send, without waiting for ch
RunReturnNoWait(c) ==
    /\ callPc[c] = "wait"
    /\ callPc' = [callPc EXCEPT ![c] = "ret"]
    /\ UNCHANGED << workerVars, callKind, doneCh, cerr, jobPc, jobRan, hwErr,
                    ctorRet, orderVars, ctxVars, hwVars, renderVars >>

\* line 67: `<-ch` returns once ch is closed
RunReturn(c) ==
    /\ callPc[c] = "wait"
    /\ doneCh[c]
    /\ callPc' = [callPc EXCEPT ![c] = "ret"]
    /\ UNCHANGED << workerVars, callKind, doneCh, cerr, jobPc, jobRan, hwErr,
                    ctorRet, orderVars, ctxVars, hwVars, renderVars >>

\* lines 109..113
CtorReturn ==
    /\ callPc[Ctor] = "ret"
    /\ callPc' = [callPc EXCEPT
                    ![Ctor] = IF cerr[Ctor] # NoErr THEN "failed" ELSE "constructed"]
    /\ ctorRet' = cerr[Ctor]
    /\ UNCHANGED << workerVars, callKind, doneCh, cerr, jobPc, jobRan, hwErr,
                    orderVars, ctxVars, hwVars, renderVars >>

\* lines 307 and 321: return cerr. The call is over: its channel, its cerr
\* slot and its job are garbage.
CallReturn(c) ==
    /\ c \in Clients
    /\ callPc[c] = "ret"
    /\ callPc' = [callPc EXCEPT ![c] = "idle"]
    /\ callKind' = [callKind EXCEPT ![c] = "suspend"]
    /\ doneCh' = [doneCh EXCEPT ![c] = FALSE]
    /\ cerr' = [cerr EXCEPT ![c] = NoErr]
    /\ hwErr' = [hwErr EXCEPT ![c] = NoErr]
    /\ jobRan' = [jobRan EXCEPT ![c] = FALSE]
    /\ UNCHANGED << workerVars, jobPc, ctorRet, submitted, executed, ctxVars, hwVars, renderVars >>

\* ---------------------------------------------------------- initOnCOMThread
\* the buffer sizes GetBufferSize may report
Capacities == { U32(n) : n \in 1..MaxCapacity }

\* one device: its buffer has the largest size
DeviceCapacity == { U32(MaxCapacity) }

\* the results a platform call of initOnCOMThread may have; IsFormatSupported
\* may also succeed and report a closest format (line 168)
Outcomes(s) ==
    {"ok", "err"} \cup (IF s = "IsFormatSupported" THEN {"closest"} ELSE {})

\* mutant: the error of a failing call is replaced by another one
StepErrorWrapped(s, r) == IF r = "err" THEN "setup failed" ELSE NoErr

\* `if err != nil { return err }` after each call: the error of step s with
\* result r, returned as it is
StepError(s, r) == IF r = "err" THEN s ELSE NoErr

\* mutant: a closest format is taken instead of the requested one
FormatCheckAdopts(r) ==
    IF r = "closest" THEN [err |-> NoErr, format |-> "closest"]
    ELSE [err |-> NoErr, format |-> "requested"]

\* lines 172..175: a closest format is an error; otherwise c.mixFormat = f
FormatCheck(r) ==
    IF r = "closest" THEN [err |-> ErrFormat, format |-> "nil"]
    ELSE [err |-> NoErr, format |-> "requested"]

\* One platform call of lines 117..207 and the test of its result. A failing
\* call makes initOnCOMThread return its error, which the job of
\* newWASAPIContext stores in cerr (lines 104..106).
InitStepOn(caps) ==
    /\ jobPc[Ctor] = "setup"
    /\ hwCalls' = hwCalls + 1
    /\ \E r \in Outcomes(SetupSteps[setupStep]) :
       LET s == SetupSteps[setupStep]
           check == IF s = "IsFormatSupported" /\ r # "err"
                      THEN FormatCheck(r)
                      ELSE [err |-> NoErr, format |-> mixFormat]
           e == IF StepError(s, r) # NoErr THEN StepError(s, r) ELSE check.err
       IN
       /\ closest' = (closest \/ r = "closest")
       /\ IF e # NoErr
            THEN \* initOnCOMThread returns e
                 /\ cerr' = [cerr EXCEPT ![Ctor] = e]
                 /\ jobRan' = [jobRan EXCEPT ![Ctor] = TRUE]
                 /\ jobPc' = [jobPc EXCEPT ![Ctor] = "close"]
                 /\ UNCHANGED << setupStep, bufferFrames, mixFormat,
                                 initialized, started >>
            ELSE \* the call succeeded
                 /\ mixFormat' = check.format
                 /\ initialized' = (initialized \/ s = "Initialize")
                 /\ \E n \in caps :
                       bufferFrames' = IF s = "GetBufferSize" THEN n
                                       ELSE bufferFrames
                 /\ started' = IF s = "Start" THEN TRUE ELSE started
                 /\ IF setupStep < Len(SetupSteps)
                      THEN /\ setupStep' = setupStep + 1
                           /\ jobPc' = jobPc
                      ELSE /\ setupStep' = setupStep
                           /\ jobPc' = [jobPc EXCEPT ![Ctor] = "launch"]
                 /\ UNCHANGED << cerr, jobRan >>
    /\ UNCHANGED << workerVars, callPc, callKind, doneCh, hwErr, ctorRet, orderVars,
                    channelCount, m, err, renderVars >>

\* setup on a device with the one buffer size
InitStep == InitStepOn(DeviceCapacity)

\* setup on a device of any buffer size
FillInitStep == InitStepOn(Capacities)

\* lines 211 and 229: the render goroutine is started and nil is returned
InitLaunch ==
    /\ jobPc[Ctor] = "launch"
    /\ renderPc' = "coinit"
    /\ jobRan' = [jobRan EXCEPT ![Ctor] = TRUE]
    /\ jobPc' = [jobPc EXCEPT ![Ctor] = "close"]
    /\ UNCHANGED << workerVars, callPc, callKind, doneCh, cerr, hwErr, ctorRet,
                    orderVars, ctxVars, hwVars, bufLen, bufCap, maxBuflen, padding, frames,
                    renderRet, cycle, termStop >>

\* ---------------------------------------------------------- Suspend / Resume
\* mutant: the job does not take c.m
JobLockNoMutex(c) ==
    /\ jobPc[c] = "lock"
    /\ jobPc' = [jobPc EXCEPT ![c] = "call"]
    /\ UNCHANGED << workerVars, callPc, callKind, doneCh, cerr, jobRan, hwErr,
                    ctorRet, orderVars, ctxVars, hwVars, renderVars >>

\* lines 299 and 313: c.m.Lock() inside the job
JobLock(c) ==
    /\ jobPc[c] = "lock"
    /\ m = Free
    /\ m' = Job(c)
    /\ jobPc' = [jobPc EXCEPT ![c] = "call"]
    /\ UNCHANGED << workerVars, callPc, callKind, doneCh, cerr, jobRan, hwErr,
                    ctorRet, orderVars, ctxVars, started, err, renderVars >>

\* mutant: a failing Stop / Start is also written over the error cell
JobCallStoresErr(c) ==
    /\ jobPc[c] = "call"
    /\ \E ok \in BOOLEAN :
        /\ started' = IF ok THEN callKind[c] = "resume" ELSE started
        /\ LET e == IF ok THEN NoErr
                    ELSE IF callKind[c] = "suspend" THEN "Stop" ELSE "Start"
           IN  /\ hwErr' = [hwErr EXCEPT ![c] = e]
               /\ cerr' = [cerr EXCEPT ![c] = e]
               /\ err' = IF ok THEN err ELSE e
    /\ jobPc' = [jobPc EXCEPT ![c] = "unlock"]
    /\ UNCHANGED << workerVars, callPc, callKind, doneCh, jobRan, ctorRet,
                    orderVars, ctxVars, m, renderVars >>

\* lines 302..305 (c.client.Stop) and 316..319 (c.client.Start)
JobCall(c) ==
    /\ jobPc[c] = "call"
    /\ \E ok \in BOOLEAN :
        /\ started' = IF ok THEN callKind[c] = "resume" ELSE started
        /\ LET e == IF ok THEN NoErr
                    ELSE IF callKind[c] = "suspend" THEN "Stop" ELSE "Start"
           IN  /\ hwErr' = [hwErr EXCEPT ![c] = e]
               /\ cerr' = [cerr EXCEPT ![c] = e]
    /\ jobPc' = [jobPc EXCEPT ![c] = "unlock"]
    /\ UNCHANGED << workerVars, callPc, callKind, doneCh, jobRan, ctorRet,
                    orderVars, ctxVars, m, err, renderVars >>

\* lines 300 and 314: the deferred c.m.Unlock(), then f returns
JobUnlock(c) ==
    /\ jobPc[c] = "unlock"
    /\ m' = Free
    /\ jobRan' = [jobRan EXCEPT ![c] = TRUE]
    /\ jobPc' = [jobPc EXCEPT ![c] = "close"]
    /\ UNCHANGED << workerVars, callPc, callKind, doneCh, cerr, hwErr, ctorRet,
                    orderVars, ctxVars, started, err, renderVars >>

\* ------------------------------------------------------- the render goroutine
\* any padding a uint32 query may report, also beyond the buffer size
Paddings == { U32(n) : n \in 0..(MaxCapacity + 1) }

\* the buffer is empty or full
DevicePaddings == { U32(0), U32(MaxCapacity) }

\* line 215: _CoInitializeEx on the render thread
RenderCoInit ==
    /\ renderPc = "coinit"
    /\ \E ok \in BOOLEAN :
        IF ok THEN /\ renderPc' = "wait"
                   /\ renderRet' = renderRet
              ELSE /\ renderPc' = "stop"
                   /\ renderRet' = "CoInitializeEx"
    /\ UNCHANGED << callVars, orderVars, workerVars, ctxVars, hwVars, bufLen,
                    bufCap, maxBuflen, padding, frames, cycle, termStop >>

\* lines 234..240: WaitForSingleObject returns an error, a code other than
\* WAIT_OBJECT_0, or WAIT_OBJECT_0
RenderWait ==
    /\ renderPc = "wait"
    /\ \E r \in {"Wait", "WakeCode", NoErr} :
        /\ renderRet' = r
        /\ renderPc' = IF r = NoErr THEN "lock" ELSE "stop"
    /\ UNCHANGED << callVars, orderVars, workerVars, ctxVars, hwVars, bufLen,
                    bufCap, maxBuflen, padding, frames, cycle, termStop >>

\* line 249: c.m.Lock() at the start of writeOnRenderThread
RenderLock ==
    /\ renderPc = "lock"
    /\ m = Free
    /\ m' = Render
    /\ renderPc' = "padding"
    /\ cycle' = NoCycle
    /\ UNCHANGED << callVars, orderVars, workerVars, ctxVars, started, err,
                    bufLen, bufCap, maxBuflen, padding, frames, renderRet, termStop >>

\* lines 252..260: GetCurrentPadding, frames := bufferFrames - paddingFrames,
\* and the early return when frames <= 0
RenderPaddingOf(pads) ==
    /\ renderPc = "padding"
    /\ \/ /\ renderRet' = "GetCurrentPadding"
          /\ renderPc' = "unlock"
          /\ UNCHANGED << padding, frames >>
       \/ \E p \in pads :
          /\ padding' = p
          /\ frames' = Sub32(bufferFrames, p)
          /\ renderRet' = NoErr
          /\ renderPc' = IF LeqZero32(frames') THEN "unlock" ELSE "getbuffer"
    /\ UNCHANGED << callVars, orderVars, workerVars, ctxVars, hwVars, bufLen,
                    bufCap, maxBuflen, cycle, termStop >>

RenderPadding == RenderPaddingOf(DevicePaddings)

FillRenderPadding == RenderPaddingOf(Paddings)

\* lines 263..266: c.renderClient.GetBuffer(frames)
RenderGetBuffer ==
    /\ renderPc = "getbuffer"
    /\ cycle' = [cycle EXCEPT !.requested = Append(@, frames)]
    /\ \E ok \in BOOLEAN :
        IF ok THEN /\ renderPc' = "pull"
                   /\ renderRet' = renderRet
              ELSE /\ renderPc' = "unlock"
                   /\ renderRet' = "GetBuffer"
    /\ UNCHANGED << callVars, orderVars, workerVars, ctxVars, hwVars, bufLen,
                    bufCap, maxBuflen, padding, frames, termStop >>

\* mutant: the scratch buffer is allocated anew in every cycle
ScratchCapExact(cap, buflen) == buflen

\* lines 270..274: cap(c.buf) after the buffer is sized to buflen samples:
\* make([]float32, buflen) if it is too small, c.buf[:buflen] otherwise
ScratchCap(cap, buflen) == IF Less(cap, buflen) THEN buflen ELSE cap

\* lines 269..285: size the scratch buffer, read buflen samples from the mux
\* and copy them to the destination buffer
RenderPull ==
    /\ renderPc = "pull"
    /\ LET buflen == BufLen(frames, channelCount) IN
        /\ bufCap' = ScratchCap(bufCap, buflen)
        /\ maxBuflen' = IF Less(maxBuflen, buflen) THEN buflen ELSE maxBuflen
        /\ bufLen' = buflen
        /\ cycle' = [cycle EXCEPT !.pulled = Append(@, buflen)]
    /\ renderPc' = "release"
    /\ UNCHANGED << callVars, orderVars, workerVars, ctxVars, hwVars, padding,
                    frames, renderRet, termStop >>

\* lines 288..293: ReleaseBuffer(frames, 0), then c.buf = c.buf[:0]
RenderRelease ==
    /\ renderPc = "release"
    /\ cycle' = [cycle EXCEPT !.committed = Append(@, frames)]
    /\ \E ok \in BOOLEAN :
        IF ok THEN /\ bufLen' = Zero
                   /\ renderRet' = renderRet
              ELSE /\ bufLen' = bufLen
                   /\ renderRet' = "ReleaseBuffer"
    /\ renderPc' = "unlock"
    /\ UNCHANGED << callVars, orderVars, workerVars, ctxVars, hwVars, bufCap, maxBuflen,
                    padding, frames, termStop >>

\* mutant: c.m is unlocked at the end of a successful cycle only
RenderUnlockLeaks ==
    /\ renderPc = "unlock"
    /\ m' = IF renderRet = NoErr THEN Free ELSE m
    /\ renderPc' = IF renderRet = NoErr THEN "wait" ELSE "stop"
    /\ padding' = Zero
    /\ frames' = Zero
    /\ cycle' = NoCycle
    /\ UNCHANGED << callVars, orderVars, workerVars, ctxVars, started, err,
                    bufLen, bufCap, maxBuflen, renderRet, termStop >>

\* line 250: the deferred c.m.Unlock(); writeOnRenderThread returns (its locals
\* are gone), and loopOnRenderThread waits again or returns the error (242..244)
RenderUnlock ==
    /\ renderPc = "unlock"
    /\ m' = Free
    /\ renderPc' = IF renderRet = NoErr THEN "wait" ELSE "stop"
    /\ padding' = Zero
    /\ frames' = Zero
    /\ cycle' = NoCycle
    /\ UNCHANGED << callVars, orderVars, workerVars, ctxVars, started, err,
                    bufLen, bufCap, maxBuflen, renderRet, termStop >>

\* lines 216 and 223: c.client.Stop(), its result dropped
RenderStop ==
    /\ renderPc = "stop"
    /\ \E ok \in BOOLEAN : started' = IF ok THEN FALSE ELSE started
    /\ termStop' = TRUE
    /\ renderPc' = "store"
    /\ UNCHANGED << callVars, orderVars, workerVars, ctxVars, m, err, bufLen,
                    bufCap, maxBuflen, padding, frames, renderRet, cycle >>

\* mutant: the goroutine returns without storing the error
RenderStoreDropped ==
    /\ renderPc = "store"
    /\ renderPc' = "done"
    /\ UNCHANGED << callVars, orderVars, workerVars, ctxVars, hwVars, bufLen,
                    bufCap, maxBuflen, padding, frames, renderRet, cycle, termStop >>

\* lines 217..218 and 224..225: c.err.TryStore(err); return
RenderStore ==
    /\ renderPc = "store"
    /\ err' = TryStore(err, renderRet)
    /\ renderPc' = "done"
    /\ UNCHANGED << callVars, orderVars, workerVars, ctxVars, started, m,
                    bufLen, bufCap, maxBuflen, padding, frames, renderRet, cycle, termStop >>

\* ------------------------------------------------------------ specification
Next ==
    \/ NewCOMThread
    \/ WorkerCoInit
    \/ WorkerSendErr
    \/ WorkerCloseErrCh
    \/ CtorRunInit
    \/ \E c \in Clients : Suspend(c)
    \/ \E c \in Clients : Resume(c)
    \/ WorkerRecv
    \/ \E c \in Callers : JobClose(c)
    \/ \E c \in Callers : RunReturn(c)
    \/ CtorReturn
    \/ \E c \in Clients : CallReturn(c)
    \/ InitStep
    \/ InitLaunch
    \/ \E c \in Clients : JobLock(c)
    \/ \E c \in Clients : JobCall(c)
    \/ \E c \in Clients : JobUnlock(c)
    \/ RenderCoInit
    \/ RenderWait
    \/ RenderLock
    \/ RenderPadding
    \/ RenderGetBuffer
    \/ RenderPull
    \/ RenderRelease
    \/ RenderUnlock
    \/ RenderStop
    \/ RenderStore

Spec == Init /\ [][Next]_vars

\* The fill cycle on its own: any channel count, any buffer size, any
\* padding, and no Suspend / Resume calls.
FillNext ==
    \/ NewCOMThread
    \/ WorkerCoInit
    \/ WorkerSendErr
    \/ WorkerCloseErrCh
    \/ CtorRunInit
    \/ WorkerRecv
    \/ JobClose(Ctor)
    \/ RunReturn(Ctor)
    \/ CtorReturn
    \/ FillInitStep
    \/ InitLaunch
    \/ RenderCoInit
    \/ RenderWait
    \/ RenderLock
    \/ FillRenderPadding
    \/ RenderGetBuffer
    \/ RenderPull
    \/ RenderRelease
    \/ RenderUnlock
    \/ RenderStop
    \/ RenderStore

FillSpec == FillInit /\ [][FillNext]_vars

\* The Go scheduler runs every runnable goroutine, so the render goroutine
\* takes each step that does not wait for the platform or for c.m. (The wait
\* for the readiness event may last forever, e.g. while the client is stopped.)
RenderProgress ==
    \/ RenderCoInit
    \/ RenderPadding
    \/ RenderGetBuffer
    \/ RenderPull
    \/ RenderRelease
    \/ RenderUnlock
    \/ RenderStop
    \/ RenderStore

FairSpec == Spec /\ WF_vars(RenderProgress)

\* The worker goroutine is scheduled as well: it receives a job when one is
\* offered and runs it to its end (lines 47..49, 62..66).
WorkerProgress ==
    \/ WorkerRecv
    \/ \E c \in Clients : JobCall(c)
    \/ \E c \in Clients : JobUnlock(c)
    \/ \E c \in Callers : JobClose(c)

\* A goroutine blocked in c.m.Lock() gets the mutex if it is unlocked again
\* and again (sync.Mutex hands over to a waiter that has waited long), and a
\* caller whose channel is closed returns from Run.
LiveSpec ==
    /\ FairSpec
    /\ WF_vars(WorkerProgress)
    /\ \A c \in Clients : SF_vars(JobLock(c)) /\ WF_vars(RunReturn(c))

\* ------------------------------------------------------------------ claims
\* the render goroutine is inside writeOnRenderThread and holds c.m
FillInProgress == renderPc \in {"padding", "getbuffer", "pull", "release", "unlock"}

\* C1: the started state of the hardware client never changes while a fill
\* cycle is in progress, and the Stop of Suspend and the Start of Resume are
\* only called when no fill cycle is in progress.
C1_NoStartStopDuringFill ==
    /\ [](\A c \in Clients : jobPc[c] = "call" => ~FillInProgress)
    /\ [][FillInProgress => started' = started]_vars

\* a Resume job waits for c.m while a fill cycle copies, after a Suspend has
\* stopped the client
C1_Witness ==
    \E c \in Clients :
        /\ jobPc[c] = "lock"
        /\ callKind[c] = "resume"
        /\ renderPc = "release"
        /\ ~started
        /\ executed = 3

\* C2: once the error cell holds a failure it keeps that failure: no step
\* overwrites it or empties it.
C2_ErrCellSetOnce == [][err # NoErr => err' = err]_vars

\* the cell holds the render failure and a Suspend or Resume has failed with
\* another error
C2_Witness ==
    \E c \in Clients :
        /\ err \in {"Wait", "GetBuffer"}
        /\ renderPc = "done"
        /\ jobPc[c] = "unlock"
        /\ hwErr[c] \in {"Stop", "Start"}

LoopErrs == {"Wait", "WakeCode", "GetCurrentPadding", "GetBuffer", "ReleaseBuffer"}

\* the render loop has failed: loopOnRenderThread returns this error
LoopFailed == renderRet \in LoopErrs

\* C3: when the render loop fails (wait failure, unexpected wake code, failing
\* step of the fill cycle) it ends for good: the failure stays the same, no
\* fill cycle begins afterwards and the goroutine, once returned, stays so;
\* and from some point on the goroutine has returned, a Stop has been issued
\* and Err() returns that failure, forever. (LoopFailed is stable by the first
\* conjunct, so the second says LoopFailed ~> [](...).)
C3_RenderFailureIsTerminal ==
    /\ [][LoopFailed =>
            /\ renderRet' = renderRet
            /\ renderPc' \in {"unlock", "stop", "store", "done"}
            /\ (renderPc = "done" => renderPc' = "done" /\ err' = err)]_vars
    /\ <>[](LoopFailed => (renderPc = "done" /\ termStop /\ err = renderRet))

\* the loop has ended on a failed ReleaseBuffer and the cell holds it
C3_Witness ==
    /\ renderPc = "done"
    /\ termStop
    /\ renderRet = "ReleaseBuffer"
    /\ err = "ReleaseBuffer"

\* the fill cycle has done its work and is about to return nil
CycleSucceeded == renderPc = "unlock" /\ renderRet = NoErr

\* C4: with padding < capacity a successful fill cycle asks GetBuffer for
\* capacity - padding frames, reads (capacity - padding) * channelCount
\* samples from the mux, and releases capacity - padding frames.
C4_FillsExactlyAvailable ==
    (CycleSucceeded /\ Less(padding, bufferFrames)) =>
        LET available == Val(bufferFrames) - Val(padding) IN
        /\ cycle.requested = << U32(available) >>
        /\ cycle.pulled = << U32(available * channelCount) >>
        /\ cycle.committed = << U32(available) >>

\* capacity 2, padding 1, two channels: one frame, two samples; the scratch
\* buffer was already larger from an earlier cycle
C4_Witness ==
    /\ CycleSucceeded
    /\ bufferFrames = U32(2)
    /\ padding = U32(1)
    /\ channelCount = 2
    /\ cycle.committed = << U32(1) >>
    /\ cycle.pulled = << U32(2) >>
    /\ bufCap = U32(4)

\* the padding query of this fill cycle returned the capacity
PaddingIsCapacity ==
    /\ renderPc \in {"getbuffer", "pull", "release", "unlock"}
    /\ padding = bufferFrames

\* C5: a fill cycle with padding = capacity asks for no buffer, reads nothing
\* from the mux, releases nothing, returns nil, and the loop waits again.
C5_FullBufferIsNoOp ==
    /\ [](PaddingIsCapacity =>
            /\ renderPc = "unlock"
            /\ renderRet = NoErr
            /\ cycle = NoCycle)
    /\ [][PaddingIsCapacity => renderPc' \in {"unlock", "wait"}]_vars

\* a fill cycle found the buffer of 2 frames full and is returning
C5_Witness ==
    /\ renderPc = "unlock"
    /\ bufferFrames = U32(2)
    /\ padding = U32(2)
    /\ renderRet = NoErr
    /\ cycle.pulled = << >>

Executing == { c \in Callers : jobPc[c] # "none" }

\* C7: at most one job is executing on the worker at any time.
C7_OneJobAtATime == Cardinality(Executing) <= 1

\* a Suspend job holds the worker, waiting for c.m, and another job is queued
C7_Witness ==
    \E c \in Clients :
        /\ jobPc[c] = "lock"
        /\ m = Render
        /\ funcCh # << >>

\* C8: when Run returns to a caller, that caller's own job has run to its end
\* on the worker (f has returned and the worker has left the job), so the
\* cerr slot it writes is final.
C8_RunReturnsAfterOwnJob ==
    \A c \in Callers :
        callPc[c] = "ret" =>
            /\ jobRan[c]
            /\ jobPc[c] = "none"

\* Run has returned to a Suspend whose Stop failed, while the job of the
\* other client is still executing
C8_Witness ==
    \E c, d \in Clients :
        /\ callPc[c] = "ret"
        /\ cerr[c] = "Stop"
        /\ jobPc[d] = "call"

\* C9: once newCOMThread has returned the error of a failed apartment setup,
\* the worker goroutine is not alive waiting for jobs.
C9_NoWorkerAfterFailedCoInit ==
    (callPc[Ctor] = "failed" /\ ctorRet = "CoInitializeEx") => workerPc # "recv"

\* C10: once newWASAPIContext has returned the error of a failed setup step,
\* neither the worker goroutine nor a render goroutine is alive.
C10_NoThreadsAfterFailedSetup ==
    (callPc[Ctor] = "failed" /\ ctorRet # "CoInitializeEx") =>
        /\ workerPc # "recv"
        /\ renderPc = "notlaunched"

\* C11: when a call of the setup sequence has failed, setup returns the error
\* of that very call, the client is not started and no render goroutine has
\* been launched; a render goroutine exists only when all the calls of the
\* sequence, Start being the last, were made and none failed.
C11_FailedSetupLeavesNothingStarted ==
    /\ cerr[Ctor] # NoErr =>
          /\ cerr[Ctor] = IF closest THEN ErrFormat ELSE SetupSteps[setupStep]
          /\ ~started
          /\ renderPc = "notlaunched"
    /\ (callPc[Ctor] = "failed" /\ ctorRet # "CoInitializeEx") =>
          ctorRet = cerr[Ctor]
    /\ renderPc # "notlaunched" =>
          /\ cerr[Ctor] = NoErr
          /\ setupStep = Len(SetupSteps)
          /\ hwCalls = Len(SetupSteps)

\* newWASAPIContext has returned the error of a failed Start, the last of
\* the eleven calls
C11_Witness ==
    /\ callPc[Ctor] = "failed"
    /\ ctorRet = "Start"
    /\ hwCalls = Len(SetupSteps)
    /\ ~started

\* C12: a context whose channel count is neither 1 nor 2 makes no platform
\* call during setup and is never constructed.
C12_BadChannelCountRejectedFirst ==
    channelCount \notin {1, 2} =>
        /\ hwCalls = 0
        /\ callPc[Ctor] # "constructed"

\* C13: once IsFormatSupported has reported a closest format, setup fails
\* with the format error, the closest format is not stored as the context's
\* format (no format is), and the client is neither initialized nor started;
\* the only format the context ever holds is the requested one.
C13_ClosestFormatFailsSetup ==
    /\ mixFormat \in {"nil", "requested"}
    /\ closest =>
          /\ cerr[Ctor] = ErrFormat
          /\ callPc[Ctor] # "constructed"
          /\ mixFormat = "nil"
          /\ ~initialized
          /\ ~started
          /\ SetupSteps[setupStep] = "IsFormatSupported"
          /\ renderPc = "notlaunched"

\* newWASAPIContext has returned the format error after a closest format
\* was reported for a mono context
C13_Witness ==
    /\ closest
    /\ channelCount = 1
    /\ callPc[Ctor] = "failed"
    /\ ctorRet = ErrFormat

\* C14: a Suspend or Resume returns the failure of its Stop or Start call as
\* it is, and no step of a Suspend or Resume (submission, the job's lock, call
\* and unlock on the worker, the return) changes the error cell or the
\* position and result of the render goroutine.
C14_SuspendResumeLeaveErrCell ==
    /\ [](\A c \in Clients : callPc[c] = "ret" => cerr[c] = hwErr[c])
    /\ [][(\E c \in Clients : callPc'[c] # callPc[c] \/ jobPc'[c] # jobPc[c])
            => (err' = err /\ renderPc' = renderPc /\ renderRet' = renderRet)]_vars

\* a Resume whose Start failed has returned that failure in the middle of a
\* fill cycle; the error cell is empty
C14_Witness ==
    \E c \in Clients :
        /\ callPc[c] = "ret"
        /\ callKind[c] = "resume"
        /\ cerr[c] = "Start"
        /\ err = NoErr
        /\ renderPc = "padding"

\* the threads that are in a fill cycle or at a Stop or Start call of the
\* hardware client
AtClient ==
    {Job(c) : c \in {d \in Clients : jobPc[d] = "call"}}
        \cup (IF FillInProgress \/ renderPc = "stop" THEN {Render} ELSE {})

\* C15: a thread that is in a fill cycle or at a Stop or Start call, the Stop
\* of the terminating render goroutine included, holds c.m, so that at most
\* one thread is there at a time.
C15_StopStartFillUnderMutex ==
    /\ Cardinality(AtClient) <= 1
    /\ \A t \in AtClient : m = t

\* C16: Stop and Start of the hardware client are called by jobs on the
\* worker only: the render goroutine is never at a Stop call and has never
\* made one.
C16_StopStartOnWorkerOnly ==
    /\ renderPc # "stop"
    /\ ~termStop

\* the padding query of this fill cycle reported at least the capacity, so
\* that capacity - padding is zero or negative
NothingAvailable ==
    /\ renderPc \in {"getbuffer", "pull", "release", "unlock"}
    /\ renderRet # "GetCurrentPadding"
    /\ ~Less(padding, bufferFrames)

\* C17: a fill cycle whose padding is the capacity or more, capacity and
\* padding being 32-bit unsigned counts, asks for no buffer, reads nothing
\* from the mux, releases nothing and returns nil.
C17_NothingAvailableIsNoOp ==
    NothingAvailable =>
        /\ renderPc = "unlock"
        /\ renderRet = NoErr
        /\ cycle = NoCycle

\* C18: after the render goroutine has made its terminating Stop and the
\* client is stopped, no step starts the client again.
C18_StreamStaysDead ==
    [][(termStop /\ ~started) => ~started']_vars

\* C19: a Suspend or Resume that has been called returns: no caller stays
\* for ever in Run, sending its job or waiting for its end.
C19_SuspendResumeReturn ==
    \A c \in Clients : []<>(callPc[c] \notin {"send", "wait"})

\* a Suspend waits in Run, its job blocked on c.m, which the render goroutine
\* holds in a fill cycle that has failed and is about to unlock
C19_Witness ==
    \E c \in Clients :
        /\ callPc[c] = "wait"
        /\ callKind[c] = "suspend"
        /\ jobPc[c] = "lock"
        /\ m = Render
        /\ renderPc = "unlock"
        /\ renderRet = "ReleaseBuffer"

\* C20: the capacity of the scratch buffer is never made smaller: it is the
\* largest number of samples a fill cycle has asked for so far; and the length
\* of the buffer is zero when a fill cycle has succeeded, until the next cycle
\* sizes it.
C20_ScratchBufferKeepsCapacity ==
    /\ [](bufCap = maxBuflen)
    /\ [][~Less(bufCap', bufCap)]_vars
    /\ []((CycleSucceeded \/ renderPc \in {"wait", "lock", "padding", "getbuffer"})
            => bufLen = Zero)

\* a stereo cycle of one frame has succeeded after one of two frames: the
\* buffer of 4 samples was kept for the 2 samples, and its length is zero
C20_Witness ==
    /\ CycleSucceeded
    /\ channelCount = 2
    /\ cycle.pulled = << U32(2) >>
    /\ bufCap = U32(4)
    /\ bufLen = Zero

====
